---- MODULE Spec2Model ----
(***************************************************************************)
(* A model of acray: the ray/triangle and ray/sphere intersection kernel   *)
(* (src/src/ray.rs), the triangle-fan builder and the bounce simulation    *)
(* Scene::simulate (src/src/scene.rs).                                     *)
(*                                                                         *)
(* Numbers.  The program computes in f32.  The model computes exactly: a   *)
(* scalar is a reduced fraction [n, d] (d > 0), and the one irrational     *)
(* operation of the program, the square root in the sphere kernel, yields  *)
(* a value a + b * sqrt(rad) that is kept in that form and compared        *)
(* exactly.  Rounding, infinities and NaN are outside the model.           *)
(***************************************************************************)
EXTENDS Integers, Sequences, FiniteSets, TLC

----------------------------------------------------------------------------
(* Exact scalars standing for f32.                                         *)

Abs(n) == IF n < 0 THEN -n ELSE n

Sgn(n) == IF n < 0 THEN -1 ELSE IF n > 0 THEN 1 ELSE 0

RECURSIVE GCD(_, _)
GCD(a, b) == IF b = 0 THEN a ELSE GCD(b, a % b)

Rat(n, d) ==
  LET g == GCD(Abs(n), Abs(d))
      s == IF d < 0 THEN -1 ELSE 1
  IN  [n |-> (s * n) \div g, d |-> (s * d) \div g]

Zero == Rat(0, 1)

One == Rat(1, 1)

Two == Rat(2, 1)

RAdd(x, y) ==
  LET g == GCD(x.d, y.d)
  IN  Rat(x.n * (y.d \div g) + y.n * (x.d \div g), (x.d \div g) * y.d)

RNeg(x) == [n |-> -x.n, d |-> x.d]

RSub(x, y) == RAdd(x, RNeg(y))

RMul(x, y) ==
  LET g1 == GCD(Abs(x.n), y.d)
      g2 == GCD(Abs(y.n), x.d)
  IN  Rat((x.n \div g1) * (y.n \div g2), (x.d \div g2) * (y.d \div g1))

RInv(x) == Rat(x.d, x.n)

RDiv(x, y) == RMul(x, RInv(y))

\* a/b < c/d for a, c >= 0 and b, d > 0, by continued fractions: no product
\* is formed, so the comparison cannot overflow.
RECURSIVE FracLt(_, _, _, _)
FracLt(a, b, c, d) ==
  LET q1 == a \div b
      q2 == c \div d
      r1 == a % b
      r2 == c % d
  IN  IF q1 # q2 THEN q1 < q2
      ELSE IF r2 = 0 THEN FALSE
      ELSE IF r1 = 0 THEN TRUE
      ELSE FracLt(d, r2, b, r1)

RLt(x, y) ==
  IF x.n < 0 /\ y.n >= 0 THEN TRUE
  ELSE IF x.n >= 0 /\ y.n < 0 THEN FALSE
  ELSE IF x.n >= 0 THEN FracLt(x.n, x.d, y.n, y.d)
  ELSE FracLt(-y.n, y.d, -x.n, x.d)

RGt(x, y) == RLt(y, x)

RLe(x, y) == ~RLt(y, x)

RGe(x, y) == ~RLt(x, y)

\* floor of the square root of a natural number, by bisection
RECURSIVE SqrtBisect(_, _, _)
SqrtBisect(n, lo, hi) ==
  IF hi - lo <= 1 THEN lo
  ELSE LET mid == (lo + hi) \div 2
       IN  IF mid <= n \div mid THEN SqrtBisect(n, mid, hi)
           ELSE SqrtBisect(n, lo, mid)

ISqrt(n) == IF n = 0 THEN 0 ELSE SqrtBisect(n, 1, n + 1)

IsSquare(n) == n >= 0 /\ ISqrt(n) * ISqrt(n) = n

RIsSquare(x) == IsSquare(x.n) /\ IsSquare(x.d)

\* core::f32::EPSILON = 2^-23
EPSILON == Rat(1, 8388608)

----------------------------------------------------------------------------
(* Wide integers: the products that an exact comparison of two values      *)
(* a + b * sqrt(rad) forms do not fit the 32-bit integers of TLC.  A       *)
(* natural number is its sequence of base-10000 digits, lowest first, and  *)
(* a wide integer is [s: sign, m: magnitude].  They are used for           *)
(* comparisons only; no state holds one.                                   *)

Limb == 100 * 100

RECURSIVE NatToBig(_)
NatToBig(n) == IF n = 0 THEN <<>> ELSE <<n % Limb>> \o NatToBig(n \div Limb)

RECURSIVE BigAdd(_, _, _)
BigAdd(x, y, carry) ==
  IF x = <<>> /\ y = <<>> THEN (IF carry = 0 THEN <<>> ELSE <<carry>>)
  ELSE LET a == IF x = <<>> THEN 0 ELSE Head(x)
           b == IF y = <<>> THEN 0 ELSE Head(y)
           t == a + b + carry
       IN  <<t % Limb>> \o BigAdd(IF x = <<>> THEN x ELSE Tail(x),
                                  IF y = <<>> THEN y ELSE Tail(y),
                                  t \div Limb)

RECURSIVE BigTrim(_)
BigTrim(x) ==
  IF x = <<>> THEN x
  ELSE IF x[Len(x)] = 0 THEN BigTrim(SubSeq(x, 1, Len(x) - 1))
  ELSE x

\* x - y for x >= y
RECURSIVE BigSubRaw(_, _, _)
BigSubRaw(x, y, borrow) ==
  IF x = <<>> THEN <<>>
  ELSE LET b == IF y = <<>> THEN 0 ELSE Head(y)
           t == Head(x) - b - borrow
       IN  <<IF t < 0 THEN t + Limb ELSE t>>
             \o BigSubRaw(Tail(x), IF y = <<>> THEN y ELSE Tail(y),
                          IF t < 0 THEN 1 ELSE 0)

BigSub(x, y) == BigTrim(BigSubRaw(x, y, 0))

RECURSIVE BigMulSmall(_, _, _)
BigMulSmall(x, k, carry) ==
  IF x = <<>> THEN (IF carry = 0 THEN <<>> ELSE <<carry>>)
  ELSE LET t == Head(x) * k + carry
       IN  <<t % Limb>> \o BigMulSmall(Tail(x), k, t \div Limb)

RECURSIVE BigMul(_, _)
BigMul(x, y) ==
  IF x = <<>> \/ y = <<>> THEN <<>>
  ELSE LET rest == BigMul(x, Tail(y))
       IN  BigTrim(BigAdd(BigMulSmall(x, Head(y), 0),
                          IF rest = <<>> THEN rest ELSE <<0>> \o rest, 0))

\* -1, 0 or 1 as x <, =, > y
RECURSIVE BigCmp(_, _)
BigCmp(x, y) ==
  IF Len(x) # Len(y) THEN (IF Len(x) < Len(y) THEN -1 ELSE 1)
  ELSE IF x = <<>> THEN 0
  ELSE IF x[Len(x)] # y[Len(y)] THEN (IF x[Len(x)] < y[Len(y)] THEN -1 ELSE 1)
  ELSE BigCmp(SubSeq(x, 1, Len(x) - 1), SubSeq(y, 1, Len(y) - 1))

Wide(n) == [s |-> Sgn(n), m |-> NatToBig(Abs(n))]

WNeg(x) == [s |-> -x.s, m |-> x.m]

WMul(x, y) == [s |-> x.s * y.s, m |-> BigMul(x.m, y.m)]

WAdd(x, y) ==
  IF x.s = 0 THEN y
  ELSE IF y.s = 0 THEN x
  ELSE IF x.s = y.s THEN [s |-> x.s, m |-> BigAdd(x.m, y.m, 0)]
  ELSE LET c == BigCmp(x.m, y.m)
       IN  IF c = 0 THEN [s |-> 0, m |-> <<>>]
           ELSE IF c > 0 THEN [s |-> x.s, m |-> BigSub(x.m, y.m)]
           ELSE [s |-> y.s, m |-> BigSub(y.m, x.m)]

WSub(x, y) == WAdd(x, WNeg(y))

\* wide fractions [n, d] with d > 0, not reduced
WRat(x) == [n |-> Wide(x.n), d |-> Wide(x.d)]

WRAdd(x, y) == [n |-> WAdd(WMul(x.n, y.d), WMul(y.n, x.d)), d |-> WMul(x.d, y.d)]

WRSub(x, y) == [n |-> WSub(WMul(x.n, y.d), WMul(y.n, x.d)), d |-> WMul(x.d, y.d)]

WRMul(x, y) == [n |-> WMul(x.n, y.n), d |-> WMul(x.d, y.d)]

WRSgn(x) == x.n.s

\* the sign of a + s * sqrt(m), for wide fractions a, m >= 0 and s in -1..1
SignRoot(a, s, m) ==
  LET sa == WRSgn(a)
      sb == IF WRSgn(m) = 0 THEN 0 ELSE s
  IN  IF sb = 0 THEN sa
      ELSE IF sa = 0 \/ sa = sb THEN sb
      ELSE sa * WRSgn(WRSub(WRMul(a, a), m))

\* the sign of a + sp * sqrt(p) + sq * sqrt(q)
SignTwoRoots(a, sp, p, sq, q) ==
  LET su == SignRoot(a, sp, p)
      sv == IF WRSgn(q) = 0 THEN 0 ELSE sq
      four == WRat(Rat(4, 1))
  IN  IF su = 0 THEN sv
      ELSE IF sv = 0 \/ su = sv THEN su
      ELSE su * SignRoot(WRSub(WRAdd(WRMul(a, a), p), q),
                         WRSgn(a) * sp,
                         WRMul(four, WRMul(WRMul(a, a), p)))

----------------------------------------------------------------------------
(* A value a + b * sqrt(rad): what the sphere kernel's sqrt() produces.    *)
(* rad = 0 and b = 0 for a rational value.                                 *)

Surd(a, b, rad) ==
  IF b = Zero \/ rad = Zero THEN [a |-> a, b |-> Zero, rad |-> Zero]
  ELSE [a |-> a, b |-> b, rad |-> rad]

ToSurd(q) == Surd(q, Zero, Zero)

\* f32::sqrt of a rational x >= 0
sqrt(x) ==
  IF RIsSquare(x) THEN ToSurd(Rat(ISqrt(x.n), ISqrt(x.d)))
  ELSE Surd(Zero, One, x)

\* -1, 0 or 1 as x <, =, > y
SurdCmp(x, y) ==
  SignTwoRoots(WRSub(WRat(x.a), WRat(y.a)),
               Sgn(x.b.n), WRMul(WRMul(WRat(x.b), WRat(x.b)), WRat(x.rad)),
               -Sgn(y.b.n), WRMul(WRMul(WRat(y.b), WRat(y.b)), WRat(y.rad)))

SurdLt(x, y) == SurdCmp(x, y) < 0

SurdGt(x, y) == SurdCmp(x, y) > 0

\* q + x and q * x for a rational q
SurdAddRat(x, q) == Surd(RAdd(x.a, q), x.b, x.rad)

SurdScale(x, q) == Surd(RMul(x.a, q), RMul(x.b, q), x.rad)

\* x + y for two values over the same radicand (or one of them rational)
SurdAdd(x, y) ==
  Surd(RAdd(x.a, y.a), RAdd(x.b, y.b), IF x.rad = Zero THEN y.rad ELSE x.rad)

SurdNeg(x) == Surd(RNeg(x.a), RNeg(x.b), x.rad)

SurdSub(x, y) == SurdAdd(x, SurdNeg(y))

----------------------------------------------------------------------------
(* vec3.rs: Vec3(f32, f32, f32), fields .0 .1 .2 are v[1] v[2] v[3].       *)

Vec3(x, y, z) == <<Rat(x, 1), Rat(y, 1), Rat(z, 1)>>

dot(u, v) == RAdd(RAdd(RMul(u[1], v[1]), RMul(u[2], v[2])), RMul(u[3], v[3]))

cross(u, v) ==
  << RSub(RMul(u[2], v[3]), RMul(u[3], v[2])),
     RSub(RMul(u[3], v[1]), RMul(u[1], v[3])),
     RSub(RMul(u[1], v[2]), RMul(u[2], v[1])) >>

neg(v) == <<RNeg(v[1]), RNeg(v[2]), RNeg(v[3])>>

add(u, v) == <<RAdd(u[1], v[1]), RAdd(u[2], v[2]), RAdd(u[3], v[3])>>

sub(u, v) == <<RSub(u[1], v[1]), RSub(u[2], v[2]), RSub(u[3], v[3])>>

\* f32 * Vec3 and Vec3 * f32
mul(scalar, v) == <<RMul(scalar, v[1]), RMul(scalar, v[2]), RMul(scalar, v[3])>>

div(v, scalar) == <<RDiv(v[1], scalar), RDiv(v[2], scalar), RDiv(v[3], scalar)>>

\* The model holds magnitudes that are rational only: the inputs are chosen
\* so, and the evaluation fails (no value to choose) on any other vector.
rational(m) == CHOOSE q \in {m.a} : m.b = Zero

mag(v) ==
  rational(sqrt(RAdd(RAdd(RMul(v[1], v[1]), RMul(v[2], v[2])), RMul(v[3], v[3]))))

unit(v) == div(v, mag(v))

----------------------------------------------------------------------------
(* ray.rs: the intersection kernel.  A Ray of the kernel is [origin,       *)
(* direction]; Option is a sequence of length 0 (None) or 1 (Some).        *)

None == <<>>

Some(x) == <<x>>

at(ray, t) == add(ray.origin, mul(t, ray.direction))

\* ray.at(t) for a t that came out of sqrt()
at_surd(ray, t) ==
  [i \in 1..3 |-> SurdAddRat(SurdScale(t, ray.direction[i]), ray.origin[i])]

\* a faulty kernel: t is computed from ab where the kernel has ac
intersect_triangle_ab(ray, tri) ==
  LET ab == sub(tri[2], tri[1])
      ac == sub(tri[3], tri[1])
      norm == cross(ray.direction, ac)
      angle == dot(ab, norm)
  IN  IF RGt(angle, RNeg(EPSILON)) /\ RLt(angle, EPSILON) THEN None
      ELSE
        LET f == RDiv(One, angle)
            offset == sub(ray.origin, tri[1])
            u == RMul(f, dot(offset, norm))
        IN  IF RLt(u, Zero) \/ RGt(u, One) THEN None
            ELSE
              LET qvec == cross(offset, ab)
                  v == RMul(f, dot(ray.direction, qvec))
              IN  IF RLt(v, Zero) \/ RGt(RAdd(u, v), One) THEN None
                  ELSE
                    LET t == RMul(f, dot(ab, qvec))
                    IN  Some([time |-> t, point |-> at(ray, t)])

\* a faulty kernel: a crossing with v = 0 is not counted
intersect_triangle_open(ray, tri) ==
  LET ab == sub(tri[2], tri[1])
      ac == sub(tri[3], tri[1])
      norm == cross(ray.direction, ac)
      angle == dot(ab, norm)
  IN  IF RGt(angle, RNeg(EPSILON)) /\ RLt(angle, EPSILON) THEN None
      ELSE
        LET f == RDiv(One, angle)
            offset == sub(ray.origin, tri[1])
            u == RMul(f, dot(offset, norm))
        IN  IF RLt(u, Zero) \/ RGt(u, One) THEN None
            ELSE
              LET qvec == cross(offset, ab)
                  v == RMul(f, dot(ray.direction, qvec))
              IN  IF RLe(v, Zero) \/ RGt(RAdd(u, v), One) THEN None
                  ELSE
                    LET t == RMul(f, dot(ac, qvec))
                    IN  Some([time |-> t, point |-> at(ray, t)])

intersect_triangle(ray, tri) ==
  LET ab == sub(tri[2], tri[1])
      ac == sub(tri[3], tri[1])
      norm == cross(ray.direction, ac)
      angle == dot(ab, norm)
  IN  IF RGt(angle, RNeg(EPSILON)) /\ RLt(angle, EPSILON) THEN None
      ELSE
        LET f == RDiv(One, angle)
            offset == sub(ray.origin, tri[1])
            u == RMul(f, dot(offset, norm))
        IN  IF RLt(u, Zero) \/ RGt(u, One) THEN None
            ELSE
              LET qvec == cross(offset, ab)
                  v == RMul(f, dot(ray.direction, qvec))
              IN  IF RLt(v, Zero) \/ RGt(RAdd(u, v), One) THEN None
                  ELSE
                    LET t == RMul(f, dot(ac, qvec))
                    IN  Some([time |-> t, point |-> at(ray, t)])

\* (-EPSILON..=EPSILON).contains(&thc)
contains_eps(thc) ==
  SurdCmp(ToSurd(RNeg(EPSILON)), thc) <= 0 /\ SurdCmp(thc, ToSurd(EPSILON)) <= 0

intersect_sphere(ray, sphere) ==
  LET oc == sub(sphere.origin, ray.origin)
      tca == dot(oc, ray.direction)
      d2 == RSub(dot(oc, oc), RMul(tca, tca))
      radius2 == RMul(sphere.radius, sphere.radius)
  IN  IF RGt(d2, radius2) THEN None
      ELSE
        LET thc == sqrt(RSub(radius2, d2))
        IN  IF contains_eps(thc)
            THEN LET t == ToSurd(tca)
                 IN  Some(<< [time |-> t, point |-> at_surd(ray, t)] >>)
            ELSE LET t0 == SurdSub(ToSurd(tca), thc)
                     t1 == SurdAdd(ToSurd(tca), thc)
                 IN  Some(<< [time |-> t0, point |-> at_surd(ray, t0)],
                             [time |-> t1, point |-> at_surd(ray, t1)] >>)

----------------------------------------------------------------------------
(* Intensities and reflectances.  The audibility cutoff 1e-12 is below     *)
(* what a fraction of the scalars above can hold, so an intensity is a     *)
(* decimal [m, e] standing for m * 10^-e, kept with m not ending in 0.     *)

RECURSIVE Dec(_, _)
Dec(m, e) ==
  IF m = 0 THEN [m |-> 0, e |-> 0]
  ELSE IF e > 0 /\ m % 10 = 0 THEN Dec(m \div 10, e - 1)
  ELSE [m |-> m, e |-> e]

DecMul(x, y) == Dec(x.m * y.m, x.e + y.e)

RECURSIVE BigPow10(_)
BigPow10(e) == IF e = 0 THEN <<1>> ELSE BigMulSmall(BigPow10(e - 1), 10, 0)

\* -1, 0 or 1 as x <, =, > y
DecCmp(x, y) ==
  BigCmp(BigMul(NatToBig(x.m), BigPow10(y.e)), BigMul(NatToBig(y.m), BigPow10(x.e)))

DecGe(x, y) == DecCmp(x, y) >= 0

DecLt(x, y) == DecCmp(x, y) < 0

\* the exponent of the cutoff 0.000_000_000_001
AudibleExp == 12

Audible == Dec(1, AudibleExp)

SPEED_OF_SOUND == 344

----------------------------------------------------------------------------
(* scene.rs: the triangle-fan builder.  A Triangle is <<p0, p1, p2>>.  The *)
(* result is [panic, triangles]: indexing points[0] or points[1] of a      *)
(* shorter vector panics.                                                  *)

\* a faulty fan: prev is never advanced
RECURSIVE fan_map_stale(_, _, _)
fan_map_stale(origin, prev, rest) ==
  IF rest = <<>> THEN <<>>
  ELSE << <<origin, prev, Head(rest)>> >> \o fan_map_stale(origin, prev, Tail(rest))

\* points.iter().skip(2).map(|point| { Triangle(*origin, *prev, *point); prev = point })
RECURSIVE fan_map(_, _, _)
fan_map(origin, prev, rest) ==
  IF rest = <<>> THEN <<>>
  ELSE << <<origin, prev, Head(rest)>> >> \o fan_map(origin, Head(rest), Tail(rest))

build_geometry_from_triangle_fan(points) ==
  IF Len(points) < 1 THEN [panic |-> TRUE, triangles |-> <<>>]
  ELSE IF Len(points) < 2 THEN [panic |-> TRUE, triangles |-> <<>>]
  ELSE [panic |-> FALSE,
        triangles |-> fan_map(points[1], points[2], SubSeq(points, 3, Len(points)))]

----------------------------------------------------------------------------
(* The Ray that scene.rs uses has a third field t_offset, and its hits     *)
(* carry a unit normal (ray/tests.rs).  That version of the kernel is not  *)
(* among the source files; what it adds to ray.rs is taken from the        *)
(* design document, sections 3 and 4.2.                                    *)

Ray_new(origin, direction) ==
  [origin |-> origin, direction |-> direction, t_offset |-> Zero]

\* reported time = t + ray.t_offset; normal = unit(ac x ab)
triangle_record(h, ray, tri) ==
  IF h = None THEN None
  ELSE Some([time |-> RAdd(h[1].time, ray.t_offset),
             point |-> h[1].point,
             unit_normal |-> unit(cross(sub(tri[3], tri[1]), sub(tri[2], tri[1])))])

ray_intersect_triangle(ray, tri) == triangle_record(intersect_triangle(ray, tri), ray, tri)

RECURSIVE offset_hits(_, _)
offset_hits(hs, t_offset) ==
  IF hs = <<>> THEN <<>>
  ELSE << [time |-> SurdAddRat(Head(hs).time, t_offset), point |-> Head(hs).point] >>
         \o offset_hits(Tail(hs), t_offset)

\* reported time = t + ray.t_offset.  The normal of a sphere hit is left
\* out: simulate never reads it.
sphere_record(r, ray) == IF r = None THEN None ELSE Some(offset_hits(r[1], ray.t_offset))

ray_intersect_sphere(ray, sphere) == sphere_record(intersect_sphere(ray, sphere), ray)

----------------------------------------------------------------------------
(* scene.rs: Interaction, its order, and the body of one tick of simulate. *)
(* An Interaction is [kind, hit, reflectance] or [kind, hit, intensity].   *)
(* A Sound is [ray, intensity] and, for the properties below and not in    *)
(* the program, id (its number in emission order) and bounces (how often   *)
(* it has been reflected); a capture carries the same two.                 *)

hit_time(interaction) ==
  IF interaction.kind = "ObjectHit" THEN ToSurd(interaction.hit.time)
  ELSE interaction.hit.time

\* Ord for Interaction: Hit::cmp on the times, whatever the kinds
cmp(a, b) == SurdCmp(hit_time(a), hit_time(b))

\* BTreeSet::insert: an ordered set under cmp; an element that compares
\* Equal to one already there is not inserted
RECURSIVE btree_insert(_, _)
insert_by(set, x, ordering) ==
  IF ordering = 0 THEN set
  ELSE IF ordering < 0 THEN <<x>> \o set
  ELSE <<Head(set)>> \o btree_insert(Tail(set), x)

btree_insert(set, x) ==
  IF set = <<>> THEN <<x>> ELSE insert_by(set, x, cmp(x, Head(set)))

\* .collect::<BTreeSet<Interaction>>()
RECURSIVE btree_collect(_, _)
btree_collect(set, items) ==
  IF items = <<>> THEN set
  ELSE btree_collect(btree_insert(set, Head(items)), Tail(items))

\* set.iter().take(1).next()
take_first(set) == IF set = <<>> THEN None ELSE Some(Head(set))

\* an Option<Hit> mapped to ObjectHit, as the sequence that filter_map leaves
object_hit(h, reflectance) ==
  IF h = None THEN <<>>
  ELSE << [kind |-> "ObjectHit", hit |-> h[1], reflectance |-> reflectance] >>

\* geometry.iter().map(|tri| ray.intersect(tri).map(ObjectHit)).filter_map(|x| x)
RECURSIVE reflector_hits(_, _, _)
reflector_hits(sound, geometry, reflectance) ==
  IF geometry = <<>> THEN <<>>
  ELSE object_hit(ray_intersect_triangle(sound.ray, Head(geometry)), reflectance)
       \o reflector_hits(sound, Tail(geometry), reflectance)

\* ray.intersect(geometry).unwrap_or(vec![]).iter().map(ReceiverHit)
RECURSIVE tag_receiver_hits(_, _)
tag_receiver_hits(hs, intensity) ==
  IF hs = <<>> THEN <<>>
  ELSE << [kind |-> "ReceiverHit", hit |-> Head(hs), intensity |-> intensity] >>
         \o tag_receiver_hits(Tail(hs), intensity)

unwrap_or_empty(r) == IF r = None THEN <<>> ELSE r[1]

receiver_hits_of(sound, sphere) ==
  tag_receiver_hits(unwrap_or_empty(ray_intersect_sphere(sound.ray, sphere)),
                    sound.intensity)

\* the closure over one object: the first element of that object's set
object_interaction(sound, object) ==
  IF object.kind = "Reflector"
  THEN take_first(btree_collect(<<>>,
         reflector_hits(sound, object.geometry, object.reflectance)))
  ELSE take_first(btree_collect(<<>>, receiver_hits_of(sound, object.geometry)))

\* self.objects.iter().map(...).flatten()
RECURSIVE object_interactions(_, _)
object_interactions(sound, objs) ==
  IF objs = <<>> THEN <<>>
  ELSE object_interaction(sound, Head(objs)) \o object_interactions(sound, Tail(objs))

hits_of(sound, objs) == btree_collect(<<>>, object_interactions(sound, objs))

\* a faulty filter: >= for >
RECURSIVE filter_later_or_equal(_, _)
filter_later_or_equal(set, t_offset) ==
  IF set = <<>> THEN <<>>
  ELSE (IF SurdCmp(hit_time(Head(set)), ToSurd(t_offset)) >= 0 THEN <<Head(set)>> ELSE <<>>)
       \o filter_later_or_equal(Tail(set), t_offset)

\* .filter(|hit| hit.time > sound.ray.t_offset)
RECURSIVE filter_later(_, _)
filter_later(set, t_offset) ==
  IF set = <<>> THEN <<>>
  ELSE (IF SurdGt(hit_time(Head(set)), ToSurd(t_offset)) THEN <<Head(set)>> ELSE <<>>)
       \o filter_later(Tail(set), t_offset)

earliest_hit(sound, objs) ==
  take_first(filter_later(hits_of(sound, objs), sound.ray.t_offset))

\* direction - 2 * direction.dot(normal) * normal
reflect(direction, unit_normal) ==
  sub(direction, mul(RMul(Two, dot(direction, unit_normal)), unit_normal))

\* a faulty audible: no cutoff at all
audible_always(new_amplitude) == TRUE

\* a faulty audible: > for >=
audible_strictly(new_amplitude) == DecCmp(new_amplitude, Audible) > 0

\* new_amplitude >= 0.000_000_000_001
audible(new_amplitude) == DecGe(new_amplitude, Audible)

\* a faulty ObjectHit arm: the new intensity is the reflectance alone
object_hit_arm_forgets(sound, interaction) ==
  [next |-> IF audible(interaction.reflectance)
            THEN Some([ray |-> [direction |-> reflect(sound.ray.direction,
                                                      interaction.hit.unit_normal),
                                origin |-> interaction.hit.point,
                                t_offset |-> interaction.hit.time],
                       intensity |-> interaction.reflectance,
                       id |-> sound.id, bounces |-> sound.bounces + 1])
            ELSE None,
   capture |-> None,
   time |-> Some(interaction.hit.time)]

\* What the closure does with one sound: [next: Option<Sound>, capture:
\* what it pushes to receiver_hits, time: what it assigns to time].
object_hit_arm(sound, interaction) ==
  LET hit == interaction.hit
      new_ray == [direction |-> reflect(sound.ray.direction, hit.unit_normal),
                  origin |-> hit.point,
                  t_offset |-> hit.time]
      new_amplitude == DecMul(sound.intensity, interaction.reflectance)
  IN  [next |-> IF audible(new_amplitude)
                THEN Some([ray |-> new_ray, intensity |-> new_amplitude,
                           id |-> sound.id, bounces |-> sound.bounces + 1])
                ELSE None,
       capture |-> None,
       time |-> Some(hit.time)]

\* a faulty ReceiverHit arm: the captured ray stays in the population
receiver_hit_arm_keeps(sound, interaction) ==
  [next |-> Some(sound),
   capture |-> Some([hit |-> interaction.hit, intensity |-> interaction.intensity,
                     id |-> sound.id, bounces |-> sound.bounces]),
   time |-> None]

receiver_hit_arm(sound, interaction) ==
  [next |-> None,
   capture |-> Some([hit |-> interaction.hit, intensity |-> interaction.intensity,
                     id |-> sound.id, bounces |-> sound.bounces]),
   time |-> None]

\* earliest_hit.map(|interaction| match interaction { .. }).flatten()
apply_interaction(sound, e) ==
  IF e = None THEN [next |-> None, capture |-> None, time |-> None]
  ELSE IF e[1].kind = "ObjectHit" THEN object_hit_arm(sound, e[1])
  ELSE receiver_hit_arm(sound, e[1])

tick_sound(sound, objs) == apply_interaction(sound, earliest_hit(sound, objs))

\* sounds.iter().map(closure).filter_map(|x| x).collect(), with the pushes to
\* receiver_hits and the assignments to time in iteration order
\* a faulty collection: the kept ray replaces the population built so far
collect_outcome_overwrites(acc, r) ==
  [sounds |-> r.next,
   receiver_hits |-> acc.receiver_hits \o r.capture,
   time |-> IF r.time = None THEN acc.time ELSE r.time[1]]

collect_outcome(acc, r) ==
  [sounds |-> acc.sounds \o r.next,
   receiver_hits |-> acc.receiver_hits \o r.capture,
   time |-> IF r.time = None THEN acc.time ELSE r.time[1]]

RECURSIVE tick_all(_, _, _)
tick_all(snds, objs, acc) ==
  IF snds = <<>> THEN acc
  ELSE tick_all(Tail(snds), objs, collect_outcome(acc, tick_sound(Head(snds), objs)))

\* rng.gen() is an f32 in [0, 1)
InRngRange(q) == RLe(Zero, q) /\ RLt(q, One)

\* Vec3(rng.gen(), rng.gen(), rng.gen()) * (SPEED_OF_SOUND / direction.mag())
emit_direction(draw) == mul(RDiv(Rat(SPEED_OF_SOUND, 1), mag(draw)), draw)

emit_sound(emitter, draw, id) ==
  [ray |-> Ray_new(emitter.origin, emit_direction(draw)), intensity |-> Dec(1, 0),
   id |-> id, bounces |-> 0]

----------------------------------------------------------------------------
(* Bounds of the model.                                                    *)

\* rounds of the loop of simulate that are explored (the loop has no cap)
MaxRounds == 7

\* sounds_per_tick of an emitter ranges over 0..MaxSounds
MaxSounds == 2

----------------------------------------------------------------------------
(* Scenes: what Scene::new().emitter(..).object(..) can have built.        *)

Reflector(geometry, reflectance) ==
  [kind |-> "Reflector", geometry |-> geometry, reflectance |-> reflectance]

Receiver(origin, radius) ==
  [kind |-> "Receiver", geometry |-> [origin |-> origin, radius |-> radius]]

Emitter(origin, sounds_per_tick) ==
  [origin |-> origin, sounds_per_tick |-> sounds_per_tick]

Fan(points) == build_geometry_from_triangle_fan(points).triangles

\* the six faces of the cube [0, 4]^3, each a fan of its four corners
FaceX(x) == Fan(<<Vec3(x, 0, 0), Vec3(x, 4, 0), Vec3(x, 4, 4), Vec3(x, 0, 4)>>)

FaceY(y) == Fan(<<Vec3(0, y, 0), Vec3(4, y, 0), Vec3(4, y, 4), Vec3(0, y, 4)>>)

FaceZ(z) == Fan(<<Vec3(0, 0, z), Vec3(4, 0, z), Vec3(4, 4, z), Vec3(0, 4, z)>>)

\* six walls, one Reflector each
Walls(rx, ry, rz) ==
  << Reflector(FaceX(0), rx), Reflector(FaceX(4), rx),
     Reflector(FaceY(0), ry), Reflector(FaceY(4), ry),
     Reflector(FaceZ(0), rz), Reflector(FaceZ(4), rz) >>

\* the same six walls as the mesh of a single Reflector
Mesh(r) ==
  << Reflector(FaceX(0) \o FaceX(4) \o FaceY(0) \o FaceY(4) \o FaceZ(0) \o FaceZ(4), r) >>

Half == Rat(1, 2)

Milli == Dec(1, 3)

Micro10 == Dec(1, 5)

Scenes(n) ==
  { \* a closed box, the receiver ahead of the emitter
    [objects |-> Walls(Milli, Milli, Milli) \o <<Receiver(Vec3(3, 2, 1), Half)>>,
     emitters |-> <<Emitter(Vec3(1, 2, 1), n)>>],
    \* a closed box, the receiver behind the emitter
    [objects |-> Walls(Micro10, Micro10, Micro10) \o <<Receiver(Vec3(1, 2, 1), Half)>>,
     emitters |-> <<Emitter(Vec3(3, 2, 1), n)>>],
    \* the box as one mesh
    [objects |-> Mesh(Milli) \o <<Receiver(Vec3(1, 2, 1), Half)>>,
     emitters |-> <<Emitter(Vec3(3, 2, 1), n)>>],
    \* the emitter at the centre of the receiver
    [objects |-> <<Receiver(Vec3(1, 2, 1), Half)>> \o Walls(Milli, Milli, Milli),
     emitters |-> <<Emitter(Vec3(1, 2, 1), n)>>],
    \* walls of different reflectance, one of them absorbing
    [objects |-> Walls(Milli, Micro10, Dec(0, 0)) \o <<Receiver(Vec3(1, 2, 1), Half)>>,
     emitters |-> <<Emitter(Vec3(3, 2, 1), n)>>],
    \* perfect mirrors
    [objects |-> Walls(Dec(1, 0), Dec(1, 0), Dec(1, 0)) \o <<Receiver(Vec3(3, 2, 1), Half)>>,
     emitters |-> <<Emitter(Vec3(1, 2, 1), n)>>],
    \* a closed box and no receiver
    [objects |-> Walls(Milli, Milli, Milli),
     emitters |-> <<Emitter(Vec3(1, 2, 1), n)>>],
    \* perfect mirrors and no receiver
    [objects |-> Walls(Dec(1, 0), Dec(1, 0), Dec(1, 0)),
     emitters |-> <<Emitter(Vec3(1, 2, 1), n)>>],
    \* no reflector, two receivers, two emitters
    [objects |-> <<Receiver(Vec3(3, 2, 1), Half), Receiver(Vec3(1, 4, 1), One)>>,
     emitters |-> <<Emitter(Vec3(1, 2, 1), n), Emitter(Vec3(0, 2, 1), 1)>>] }

\* the draws of Vec3(rng.gen(), rng.gen(), rng.gen()) that are explored
RngDraws ==
  { <<Half, Zero, Zero>>, <<Zero, Half, Zero>>, <<Zero, Zero, Half>>,
    <<Rat(1, 4), Half, Half>> }

----------------------------------------------------------------------------
(* The state.  objects and emitters are the Scene; sounds, receiver_hits   *)
(* and time are the locals of simulate; pc is where simulate stands        *)
(* ("emit": in the emission map, "loop": at the head of the loop, "done":  *)
(* returned receiver_hits) and round counts the ticks of the loop.  call   *)
(* is a call of a function of the library made outside simulate: [fn,      *)
(* the arguments, pc ("called" or "returned"), result]; it is NoCall       *)
(* while simulate runs.                                                    *)

VARIABLES objects, emitters, sounds, receiver_hits, time, pc, round, call

vars == <<objects, emitters, sounds, receiver_hits, time, pc, round, call>>

NoCall == [fn |-> "none"]

RECURSIVE to_emit(_)
to_emit(ems) ==
  IF ems = <<>> THEN 0 ELSE Head(ems).sounds_per_tick + to_emit(Tail(ems))

\* the emitter of the k-th sound of the emission map (k counted from 1)
RECURSIVE emitter_of(_, _)
emitter_of(ems, k) ==
  IF k <= Head(ems).sounds_per_tick THEN Head(ems)
  ELSE emitter_of(Tail(ems), k - Head(ems).sounds_per_tick)

Init ==
  /\ \E n \in 0..MaxSounds : \E sc \in Scenes(n) :
       /\ objects = sc.objects
       /\ emitters = sc.emitters
  /\ sounds = <<>>
  /\ receiver_hits = <<>>
  /\ time = Zero
  /\ pc = "emit"
  /\ round = 0
  /\ call = NoCall

\* one element of the emission map
Emit ==
  /\ pc = "emit"
  /\ Len(sounds) < to_emit(emitters)
  /\ \E draw \in RngDraws :
       sounds' = Append(sounds,
                        emit_sound(emitter_of(emitters, Len(sounds) + 1), draw,
                                   Len(sounds) + 1))
  /\ UNCHANGED <<objects, emitters, receiver_hits, time, pc, round, call>>

\* the emission map is exhausted: let mut time = 0; let mut sounds = sounds
EnterLoop ==
  /\ pc = "emit"
  /\ Len(sounds) = to_emit(emitters)
  /\ pc' = "loop"
  /\ time' = Zero
  /\ UNCHANGED <<objects, emitters, sounds, receiver_hits, round, call>>

TickResult(r) ==
  /\ sounds' = r.sounds
  /\ receiver_hits' = r.receiver_hits
  /\ time' = r.time

\* one tick of the loop with sounds not empty
Tick ==
  /\ pc = "loop"
  /\ sounds # <<>>
  /\ round < MaxRounds
  /\ TickResult(tick_all(sounds, objects,
                         [sounds |-> <<>>, receiver_hits |-> receiver_hits, time |-> time]))
  /\ round' = round + 1
  /\ UNCHANGED <<objects, emitters, pc, call>>

\* if sounds.is_empty() { break } and the return of receiver_hits
Return ==
  /\ pc = "loop"
  /\ sounds = <<>>
  /\ pc' = "done"
  /\ UNCHANGED <<objects, emitters, sounds, receiver_hits, time, round, call>>

Next == Emit \/ EnterLoop \/ Tick \/ Return

Spec == Init /\ [][Next]_vars

\* The steps of Spec that change round are the steps of Tick, and Tick is
\* enabled exactly when its first three conjuncts hold: weak fairness of
\* TickStep on round is weak fairness of Tick, with the enabling condition
\* in sight.
TickStep ==
  /\ pc = "loop"
  /\ sounds # <<>>
  /\ round < MaxRounds
  /\ round' = round + 1

\* The loop of simulate is one sequential computation: once entered, a
\* step of it that can be taken is taken.
FairSpec == Spec /\ WF_vars(EnterLoop) /\ WF_round(TickStep) /\ WF_vars(Return)

----------------------------------------------------------------------------
(* The kernel called by itself, as ray/tests.rs calls it: one call of      *)
(* Ray::intersect on a triangle or on a sphere.                            *)

\* the lengths of the directions are 1..MaxSpeed times those of KernelAims
MaxSpeed == 2

KernelOrigins == { Vec3(0, 0, 0), Vec3(0, 2, 0), Vec3(0, 1, 0), Vec3(0, 1, 1) }

KernelAims == { Vec3(1, 0, 0), Vec3(0, 0, 1), <<Rat(1, 3), Rat(2, 3), Rat(2, 3)>> }

KernelDirections ==
  { mul(Rat(s, 1), d) : s \in 1..MaxSpeed, d \in KernelAims }
    \cup { <<Rat(1, 4096), Zero, Zero>> }

KernelRays == { [origin |-> o, direction |-> d] : o \in KernelOrigins, d \in KernelDirections }

KernelTriangles ==
  { \* the triangle of intersect_correct_triangle
    << Vec3(2, 1, 0), Vec3(2, -1, 1), Vec3(2, -1, -1) >>,
    \* a small one in the same plane
    << <<Two, Rat(1, 64), Zero>>, <<Two, Rat(-1, 64), Rat(1, 256)>>,
       <<Two, Rat(-1, 64), Rat(-1, 256)>> >>,
    \* in the plane x + 2y + 2z = 6
    << Vec3(6, 0, 0), Vec3(0, 3, 0), Vec3(0, 0, 3) >>,
    \* in the plane y = 1
    << Vec3(0, 1, -1), Vec3(4, 1, -1), Vec3(0, 1, 1) >>,
    \* in the plane x = 2, an edge on the line y = 2
    << Vec3(2, 3, 0), Vec3(2, 2, 1), Vec3(2, 2, -1) >>,
    \* the triangle of intersect_correct_triangle_no_intersection
    << Vec3(2, 0, 0), Vec3(2, 1, 0), Vec3(2, 0, 1) >>,
    \* in the plane x = -2
    << Vec3(-2, 1, 0), Vec3(-2, -1, 1), Vec3(-2, -1, -1) >> }

KernelSpheres ==
  { [origin |-> Vec3(2, 0, 0), radius |-> One],
    [origin |-> Vec3(2, 1, 0), radius |-> One],
    [origin |-> Vec3(0, 0, 0), radius |-> One],
    [origin |-> Vec3(2, 0, 0), radius |-> Half] }

Idle ==
  /\ objects = <<>>
  /\ emitters = <<>>
  /\ sounds = <<>>
  /\ receiver_hits = <<>>
  /\ time = Zero
  /\ pc = "idle"
  /\ round = 0

KernelInit ==
  /\ Idle
  /\ \E ray \in KernelRays :
       \/ \E tri \in KernelTriangles :
            call = [fn |-> "intersect_triangle", ray |-> ray, shape |-> tri,
                    pc |-> "called", result |-> None]
       \/ \E sphere \in KernelSpheres :
            call = [fn |-> "intersect_sphere", ray |-> ray, shape |-> sphere,
                    pc |-> "called", result |-> None]

IntersectTriangle ==
  /\ call.fn = "intersect_triangle"
  /\ call.pc = "called"
  /\ call' = [call EXCEPT !.pc = "returned",
                          !.result = intersect_triangle(call.ray, call.shape)]
  /\ UNCHANGED <<objects, emitters, sounds, receiver_hits, time, pc, round>>

IntersectSphere ==
  /\ call.fn = "intersect_sphere"
  /\ call.pc = "called"
  /\ call' = [call EXCEPT !.pc = "returned",
                          !.result = intersect_sphere(call.ray, call.shape)]
  /\ UNCHANGED <<objects, emitters, sounds, receiver_hits, time, pc, round>>

KernelNext == IntersectTriangle \/ IntersectSphere

KernelSpec == KernelInit /\ [][KernelNext]_vars

----------------------------------------------------------------------------
(* The fan builder called by itself, as the tests of scene.rs call it.     *)

\* the vectors of points that are built have 0..MaxPoints points
MaxPoints == 4

\* the points of the tests triangle_fan_three_points and _four_points_two_triangles
FanPoints == { Vec3(0, 0, 0), Vec3(0, 1, 0), Vec3(1, 1, 0), Vec3(1, 0, 0) }

RECURSIVE SeqsUpTo(_, _)
SeqsUpTo(S, n) ==
  IF n = 0 THEN { <<>> }
  ELSE SeqsUpTo(S, n - 1) \cup { Append(q, x) : q \in SeqsUpTo(S, n - 1), x \in S }

FanInit ==
  /\ Idle
  /\ \E points \in SeqsUpTo(FanPoints, MaxPoints) :
       call = [fn |-> "build_geometry_from_triangle_fan", points |-> points,
               pc |-> "called", result |-> None]

BuildFan ==
  /\ call.fn = "build_geometry_from_triangle_fan"
  /\ call.pc = "called"
  /\ call' = [call EXCEPT !.pc = "returned",
                          !.result = build_geometry_from_triangle_fan(call.points)]
  /\ UNCHANGED <<objects, emitters, sounds, receiver_hits, time, pc, round>>

FanNext == BuildFan

FanSpec == FanInit /\ [][FanNext]_vars

----------------------------------------------------------------------------
(* Properties of simulate.                                                 *)

\* every hit of the ray on every triangle of every Reflector and both hits
\* on every Receiver, none set aside
RECURSIVE all_candidates(_, _)
all_candidates(sound, objs) ==
  IF objs = <<>> THEN <<>>
  ELSE (IF Head(objs).kind = "Reflector"
        THEN reflector_hits(sound, Head(objs).geometry, Head(objs).reflectance)
        ELSE receiver_hits_of(sound, Head(objs).geometry))
       \o all_candidates(sound, Tail(objs))

\* the earliest of the candidates whose time exceeds the ray's t_offset
earliest_candidate(sound, objs) ==
  take_first(btree_collect(<<>>, filter_later(all_candidates(sound, objs),
                                              sound.ray.t_offset)))

same_time(a, b) ==
  IF a = None \/ b = None THEN a = b ELSE cmp(a[1], b[1]) = 0

\* C1: at the head of every round, for every live ray, the interaction that
\* the round applies is a minimum-time element of the set of all the ray's
\* hits, on every triangle of every Reflector and on every Receiver, whose
\* time is greater than the ray's t_offset; the ray is dropped for want of
\* a candidate only when that set is empty.
C1_AppliesEarliestCandidate ==
  pc = "loop" =>
    \A i \in 1..Len(sounds) :
      same_time(earliest_hit(sounds[i], objects), earliest_candidate(sounds[i], objects))

reflector_indices == { i \in 1..Len(objects) : objects[i].kind = "Reflector" }

reflectances == { objects[i].reflectance : i \in reflector_indices }

all_below_one == \A r \in reflectances : DecLt(r, Dec(1, 0))

\* C2: in a scene whose Reflectors all have reflectance below 1, simulate
\* returns: from the head of its loop it comes, after finitely many rounds,
\* to the return of receiver_hits with the population empty.
C2_Terminates ==
  (pc = "loop" /\ all_below_one) ~> (pc = "done" /\ sounds = <<>>)

\* a run that ended after rays were reflected again and again until they
\* decayed
C2_Witness ==
  /\ pc = "done"
  /\ sounds = <<>>
  /\ reflectances # {}
  /\ all_below_one
  /\ round >= 5
  /\ Len(receiver_hits) < to_emit(emitters)

ids(seq) == { seq[i].id : i \in 1..Len(seq) }

is_kind(e, kind) == e # None /\ e[1].kind = kind

\* the rays that the round about to run captures
captured_now ==
  { i \in 1..Len(sounds) : is_kind(earliest_hit(sounds[i], objects), "ReceiverHit") }

\* the rays of the population that start at origin, and the sounds_per_tick
\* of the emitters that stand there
rays_from(origin) == { i \in 1..Len(sounds) : sounds[i].ray.origin = origin }

sounds_per_tick_at(origin) == to_emit(SelectSeq(emitters, LAMBDA e : e.origin = origin))

C3_State ==
  /\ Len(receiver_hits) + Len(sounds) <= to_emit(emitters)
  /\ Cardinality(ids(receiver_hits)) = Len(receiver_hits)
  /\ ids(receiver_hits) \cap ids(sounds) = {}
  /\ pc = "loop" /\ round = 0 =>
       /\ Len(sounds) = to_emit(emitters)
       /\ \A e \in 1..Len(emitters) :
            Cardinality(rays_from(emitters[e].origin))
              = sounds_per_tick_at(emitters[e].origin)

C3_Step ==
  pc = "loop" =>
    LET captured == captured_now
    IN  /\ Len(sounds') <= Len(sounds)
        /\ Len(receiver_hits') = Len(receiver_hits) + Cardinality(captured)
        /\ SubSeq(receiver_hits', 1, Len(receiver_hits)) = receiver_hits
        /\ \A i \in captured :
             /\ sounds[i].id \in ids(receiver_hits')
             /\ sounds[i].id \notin ids(sounds')

\* C3: the population starts with sounds_per_tick rays of every emitter;
\* no ray is captured twice and no captured ray is live, so captures plus
\* live rays never exceed the emitted rays; a round appends one entry to
\* receiver_hits for each ray whose interaction is a ReceiverHit and
\* removes that ray, and the population never grows in a round.
C3_CapturedAtMostOnce == [](C3_State) /\ [][C3_Step]_vars

\* two rays were emitted and both have been captured
C3_Witness ==
  /\ Len(receiver_hits) = 2
  /\ ids(receiver_hits) = {1, 2}
  /\ sounds = <<>>

\* the rays of the next population that continue the ray sound
successors(sound) == { j \in 1..Len(sounds') : sounds'[j].id = sound.id }

\* what the claim says of a ray whose selected interaction is the ObjectHit x
reflected_or_decayed(sound, x) ==
  LET new_intensity == DecMul(sound.intensity, x.reflectance)
      d == sound.ray.direction
      n == x.hit.unit_normal
  IN  /\ sound.id \notin ids(receiver_hits')
      /\ Len(receiver_hits') >= Len(receiver_hits)
      /\ IF DecLt(new_intensity, Audible)
         THEN successors(sound) = {}
         ELSE /\ Cardinality(successors(sound)) = 1
              /\ \A j \in successors(sound) :
                   /\ sounds'[j].ray.origin = x.hit.point
                   /\ sounds'[j].ray.t_offset = x.hit.time
                   /\ add(sounds'[j].ray.direction, mul(RMul(Two, dot(d, n)), n)) = d
                   /\ sounds'[j].intensity = new_intensity

C4_Step ==
  pc = "loop" =>
    \A i \in 1..Len(sounds) :
      LET e == earliest_hit(sounds[i], objects)
      IN  is_kind(e, "ObjectHit") => reflected_or_decayed(sounds[i], e[1])

\* C4: a ray whose selected interaction is an ObjectHit is replaced, in that
\* round, by the ray from hit.point with t_offset = hit.time, direction
\* d - 2 (d . n) n and intensity old * reflectance; it stays in the
\* population exactly when the new intensity is not below the cutoff, it
\* is gone otherwise, and no capture of it is recorded.
C4_ObjectHitArm == [][C4_Step]_vars

\* a ray that was reflected four times and kept with an intensity equal to
\* the cutoff
C4_Witness ==
  \E i \in 1..Len(sounds) :
    /\ sounds[i].bounces = 4
    /\ sounds[i].intensity = Audible
    /\ sounds[i].ray.t_offset # Zero
    /\ sounds[i].ray.origin # emitters[1].origin

RECURSIVE power(_, _)
power(r, n) == IF n = 0 THEN Dec(1, 0) ELSE DecMul(power(r, n - 1), r)

\* every Reflector of the scene has the same reflectance, below 1
uniform_below_one == Cardinality(reflectances) <= 1 /\ all_below_one

\* r^n for the r of such a scene
r_to_the(n) ==
  IF n = 0 THEN Dec(1, 0) ELSE power(CHOOSE r \in reflectances : TRUE, n)

C5_State ==
  /\ \A i \in 1..Len(sounds) : sounds[i].bounces = 0 => sounds[i].intensity = Dec(1, 0)
  /\ uniform_below_one =>
       /\ \A i \in 1..Len(sounds) : sounds[i].intensity = r_to_the(sounds[i].bounces)
       /\ \A k \in 1..Len(receiver_hits) :
            receiver_hits[k].intensity = r_to_the(receiver_hits[k].bounces)

\* the rays that a round keeps are those it reflects
C5_Step ==
  pc = "loop" =>
    \A i \in 1..Len(sounds) : \A j \in successors(sounds[i]) :
      /\ sounds'[j].bounces = sounds[i].bounces + 1
      /\ uniform_below_one => DecLt(sounds'[j].intensity, sounds[i].intensity)

\* C5: a ray starts with intensity 1; in a scene whose Reflectors all have
\* the reflectance r < 1 a ray that was reflected n times has intensity
\* r^n, every reflection makes its intensity smaller, and a capture
\* records the r^n of the captured ray (1 if it was never reflected).
C5_IntensityIsPower == [](C5_State) /\ [][C5_Step]_vars

\* a ray captured after it was reflected, with an intensity below 1
C5_Witness ==
  /\ uniform_below_one
  /\ \E k \in 1..Len(receiver_hits) :
       receiver_hits[k].bounces >= 1 /\ DecLt(receiver_hits[k].intensity, Dec(1, 0))

----------------------------------------------------------------------------
(* Properties of the kernel.                                               *)

returned(fn) == call.fn = fn /\ call.pc = "returned"

\* the square of the distance from the centre of the sphere to the line of
\* the ray
line_distance2(ray, sphere) ==
  LET oc == sub(sphere.origin, ray.origin)
  IN  RSub(dot(oc, oc),
           RDiv(RMul(dot(oc, ray.direction), dot(oc, ray.direction)),
                dot(ray.direction, ray.direction)))

hits_by_distance(ray, sphere) ==
  LET d2 == line_distance2(ray, sphere)
      r2 == RMul(sphere.radius, sphere.radius)
  IN  IF RGt(d2, r2) THEN 0 ELSE IF d2 = r2 THEN 1 ELSE 2

hit_count(result) == IF result = None THEN 0 ELSE Len(result[1])

\* C6: whatever the length of the direction, the kernel returns no hit when
\* the centre of the sphere is farther from the line of the ray than the
\* radius, one hit when the line is tangent and two otherwise; a line
\* through the centre gives the hits at tca - r and tca + r, in that order.
C6_HitsByLineDistance ==
  returned("intersect_sphere") =>
    LET ray == call.ray
        sphere == call.shape
        tca == dot(sub(sphere.origin, ray.origin), ray.direction)
    IN  /\ hit_count(call.result) = hits_by_distance(ray, sphere)
        /\ line_distance2(ray, sphere) = Zero =>
             /\ hit_count(call.result) = 2
             /\ call.result[1][1].time = ToSurd(RSub(tca, sphere.radius))
             /\ call.result[1][2].time = ToSurd(RAdd(tca, sphere.radius))

zero_vector == <<Zero, Zero, Zero>>

\* the normal of the plane of the triangle, of any length
plane_normal(tri) == cross(sub(tri[2], tri[1]), sub(tri[3], tri[1]))

\* the triangle is orthogonal to the direction of the ray
orthogonal_to(ray, tri) ==
  /\ plane_normal(tri) # zero_vector
  /\ ray.direction # zero_vector
  /\ cross(plane_normal(tri), ray.direction) = zero_vector

\* the k with origin + k * direction in the plane of the triangle
distance_k(ray, tri) ==
  RDiv(dot(sub(tri[1], ray.origin), ray.direction), dot(ray.direction, ray.direction))

crossing(ray, tri) == add(ray.origin, mul(distance_k(ray, tri), ray.direction))

\* p, a point of the plane of the triangle, is on the inner side of each edge
strictly_inside(p, tri) ==
  \A e \in { <<1, 2>>, <<2, 3>>, <<3, 1>> } :
    RGt(dot(cross(sub(tri[e[2]], tri[e[1]]), sub(p, tri[e[1]])), plane_normal(tri)), Zero)

aimed_squarely(ray, tri) ==
  /\ orthogonal_to(ray, tri)
  /\ RGt(distance_k(ray, tri), Zero)
  /\ strictly_inside(crossing(ray, tri), tri)

\* the kernel's measure of the angle between ray and plane: twice the area
\* of the triangle times the length of the direction, for a ray aimed squarely
steepness(ray, tri) ==
  LET a == dot(ray.direction, plane_normal(tri))
  IN  IF RLt(a, Zero) THEN RNeg(a) ELSE a

one_hit_at_k(ray, tri, result) ==
  result = Some([time |-> distance_k(ray, tri), point |-> crossing(ray, tri)])

\* C7 as stated: for a ray aimed squarely at a triangle orthogonal to its
\* direction, the crossing strictly inside, the kernel returns one Hit with
\* time k and point origin + k * direction.
C7_SquareHit ==
  returned("intersect_triangle") /\ aimed_squarely(call.ray, call.shape)
    => one_hit_at_k(call.ray, call.shape, call.result)

\* C7, amended: the same, for the triangles and directions that the
\* kernel does not take for parallel: |direction . (ab x ac)| >= EPSILON.
C7_SquareHitAmended ==
  /\ returned("intersect_triangle")
  /\ aimed_squarely(call.ray, call.shape)
  /\ RGe(steepness(call.ray, call.shape), EPSILON)
  => one_hit_at_k(call.ray, call.shape, call.result)

\* a hit of a ray whose direction is neither an axis nor of length 1
C7_Witness ==
  /\ returned("intersect_triangle")
  /\ aimed_squarely(call.ray, call.shape)
  /\ RGe(steepness(call.ray, call.shape), EPSILON)
  /\ dot(call.ray.direction, call.ray.direction) # One
  /\ \A i \in 1..3 : call.ray.direction[i] # Zero
  /\ call.result # None
  /\ call.result[1].time = Rat(1, 1)

----------------------------------------------------------------------------
(* Properties of the fan builder and of the emission.                      *)

\* C8: called with fewer than 3 points, 0, 1 or 2, the builder fails with
\* an error; it never returns, and so never returns an empty list.
C8_FewPointsFail ==
  returned("build_geometry_from_triangle_fan") /\ Len(call.points) < 3
    => call.result.panic

\* the directions that the emission about to happen can give its ray
possible_directions ==
  { emit_sound(emitter_of(emitters, Len(sounds) + 1), draw, Len(sounds) + 1).ray.direction :
      draw \in { d \in RngDraws : \A i \in 1..3 : InRngRange(d[i]) } }

octants == { <<sx, sy, sz>> : sx \in {-1, 1}, sy \in {-1, 1}, sz \in {-1, 1} }

\* d lies in the closed octant o: no component has the sign opposite to o's
in_octant(d, o) == \A i \in 1..3 : Sgn(d[i].n) # -o[i]

\* C9: whenever a ray is about to be emitted, every one of the eight
\* octants holds a direction that the emission can give it; directions
\* with negative components are among them.
C9_AllOctants ==
  pc = "emit" /\ Len(sounds) < to_emit(emitters) =>
    /\ \A o \in octants : \E d \in possible_directions : in_octant(d, o)
    /\ \E d \in possible_directions : \E i \in 1..3 : d[i].n < 0

\* C10: called with n >= 3 points the builder returns n - 2 triangles, the
\* k-th being (points[0], points[k], points[k+1]) in the indices of the
\* program, which count from 0.
C10_FanTriangles ==
  returned("build_geometry_from_triangle_fan") /\ Len(call.points) >= 3
    => /\ ~call.result.panic
       /\ Len(call.result.triangles) = Len(call.points) - 2
       /\ \A k \in 1..(Len(call.points) - 2) :
            call.result.triangles[k]
              = <<call.points[1], call.points[k + 1], call.points[k + 2]>>

\* four points, no two of the last three equal, give two triangles that
\* share points[0]
C10_Witness ==
  /\ returned("build_geometry_from_triangle_fan")
  /\ Len(call.points) = 4
  /\ Cardinality({ call.points[i] : i \in 2..4 }) = 3
  /\ Len(call.result.triangles) = 2
  /\ call.result.triangles[1][1] = call.points[1]
  /\ call.result.triangles[2][1] = call.points[1]

----------------------------------------------------------------------------
(* Properties of the times of a ray.                                       *)

\* the captures that the round records
new_captures == { k \in 1..Len(receiver_hits') : k > Len(receiver_hits) }

C11_State ==
  /\ \A i \in 1..Len(sounds) :
       IF sounds[i].bounces = 0 THEN sounds[i].ray.t_offset = Zero
       ELSE RGt(sounds[i].ray.t_offset, Zero)
  /\ \A k \in 1..Len(receiver_hits) : SurdGt(receiver_hits[k].hit.time, ToSurd(Zero))

C11_Step ==
  pc = "loop" =>
    \A i \in 1..Len(sounds) :
      /\ \A j \in successors(sounds[i]) :
           RGt(sounds'[j].ray.t_offset, sounds[i].ray.t_offset)
      /\ \A k \in new_captures :
           receiver_hits'[k].id = sounds[i].id
             => SurdGt(receiver_hits'[k].hit.time, ToSurd(sounds[i].ray.t_offset))

\* C11: the reflection or capture that a round applies to a ray has a hit
\* time greater than the ray's t_offset: the t_offset of a ray grows with
\* every reflection (so the ray does not hit again, at the time of the
\* bounce, the surface it left), and the time of a capture is later than
\* the last reflection of the captured ray, and later than 0.
C11_TimesIncrease == [](C11_State) /\ [][C11_Step]_vars

\* the one ray of a run, captured after it was reflected at a time > 0,
\* which is the value that time holds
C11_Witness ==
  /\ to_emit(emitters) = 1
  /\ RGt(time, Zero)
  /\ \E k \in 1..Len(receiver_hits) :
       /\ receiver_hits[k].bounces >= 1
       /\ SurdGt(receiver_hits[k].hit.time, ToSurd(time))

----------------------------------------------------------------------------
(* The triangle kernel against the geometry of line and triangle.          *)

\* direction . (ab x ac): 0 exactly when the ray is parallel to the plane
plane_rate(ray, tri) == dot(ray.direction, plane_normal(tri))

\* the t with origin + t * direction in the plane, for a ray not parallel
plane_t(ray, tri) ==
  RDiv(dot(sub(tri[1], ray.origin), plane_normal(tri)), plane_rate(ray, tri))

plane_crossing(ray, tri) == add(ray.origin, mul(plane_t(ray, tri), ray.direction))

\* the value that is > 0 on the inner side of the edge from tri[e[1]] to
\* tri[e[2]], 0 on its line and < 0 beyond it
edge_side(p, tri, e) ==
  dot(cross(sub(tri[e[2]], tri[e[1]]), sub(p, tri[e[1]])), plane_normal(tri))

edges == { <<1, 2>>, <<2, 3>>, <<3, 1>> }

in_closed_triangle(p, tri) == \A e \in edges : RGe(edge_side(p, tri, e), Zero)

on_boundary(p, tri) ==
  in_closed_triangle(p, tri) /\ \E e \in edges : edge_side(p, tri, e) = Zero

\* the kernel returns the crossing of line and plane when there is a hit
crossing_returned(ray, tri, result) ==
  result # None =>
    result = Some([time |-> plane_t(ray, tri), point |-> plane_crossing(ray, tri)])

\* C12 as stated: the kernel returns a Hit exactly when the ray is not
\* parallel to the plane of the triangle and the crossing of its line with
\* the plane is in the closed triangle, edges and vertices included,
\* whatever the sign of t; the Hit is that crossing.
C12_HitIffCrossingInside ==
  returned("intersect_triangle") =>
    /\ call.result # None <=>
         /\ plane_rate(call.ray, call.shape) # Zero
         /\ in_closed_triangle(plane_crossing(call.ray, call.shape), call.shape)
    /\ crossing_returned(call.ray, call.shape, call.result)

\* C12, amended: the same with the kernel's own measure of parallel: a
\* ray counts as parallel when |direction . (ab x ac)| < EPSILON.
C12_HitIffCrossingInsideAmended ==
  returned("intersect_triangle") =>
    /\ call.result # None <=>
         /\ RGe(steepness(call.ray, call.shape), EPSILON)
         /\ in_closed_triangle(plane_crossing(call.ray, call.shape), call.shape)
    /\ crossing_returned(call.ray, call.shape, call.result)

\* a hit on the boundary of the triangle and behind the origin of the ray
C12_Witness ==
  /\ returned("intersect_triangle")
  /\ call.result # None
  /\ RLt(call.result[1].time, Zero)
  /\ on_boundary(call.result[1].point, call.shape)

----------------------------------------------------------------------------
(* The rays of a round, taken in another order.                            *)

\* the orders in which n rays can be taken
orders(n) ==
  { f \in [1..n -> 1..n] : \A a \in 1..n : \A b \in 1..n : f[a] = f[b] => a = b }

\* what the closure returns for each ray of the population, in its place
RECURSIVE outcomes(_, _)
outcomes(snds, objs) ==
  IF snds = <<>> THEN <<>>
  ELSE <<tick_sound(Head(snds), objs)>> \o outcomes(Tail(snds), objs)

\* the round, its rays taken in the given order
RECURSIVE round_in_order(_, _, _, _)
round_in_order(outcome, order, k, acc) ==
  IF k > Len(order) THEN acc
  ELSE round_in_order(outcome, order, k + 1, collect_outcome(acc, outcome[order[k]]))

elements(seq) == { seq[i] : i \in 1..Len(seq) }

same_multiset(p, q) == Len(p) = Len(q) /\ elements(p) = elements(q)

\* the rays of the list with no ray twice in it
no_ray_twice(seq) == Cardinality(ids(seq)) = Len(seq)

\* the round against the outcomes of its rays, each computed for that ray
\* and the objects alone
independent(n, outcome, start) ==
  /\ sounds' = round_in_order(outcome, [i \in 1..n |-> i], 1, start).sounds
  /\ receiver_hits'
       = round_in_order(outcome, [i \in 1..n |-> i], 1, start).receiver_hits
  /\ no_ray_twice(sounds') /\ no_ray_twice(receiver_hits')
  /\ \A i \in 1..n :
       /\ { sounds'[j] : j \in successors(sounds[i]) } = elements(outcome[i].next)
       /\ { receiver_hits'[k] : k \in { c \in new_captures :
                                         receiver_hits'[c].id = sounds[i].id } }
            = elements(outcome[i].capture)
  /\ \A order \in orders(n) :
       /\ same_multiset(round_in_order(outcome, order, 1, start).sounds, sounds')
       /\ same_multiset(round_in_order(outcome, order, 1, start).receiver_hits,
                        receiver_hits')

C13_Step ==
  pc = "loop" =>
    /\ objects' = objects
    /\ emitters' = emitters
    /\ \A outcome \in { outcomes(sounds, objects) } :
         independent(Len(sounds), outcome,
                     [sounds |-> <<>>, receiver_hits |-> receiver_hits, time |-> time])

\* C13: in a round, what becomes of a ray (its successor and intensity, its
\* capture, or its removal) is what the closure returns for that ray and
\* the objects alone; the rays taken in any order give the same next
\* population and the same captures, order apart, and the round leaves
\* objects and emitters as they were.
C13_RaysIndependent == [][C13_Step]_vars

\* after the first round of several rays: one was captured, the first
\* emitted did not live on and another did
C13_Witness ==
  /\ round = 1
  /\ to_emit(emitters) >= 2
  /\ Len(receiver_hits) >= 1
  /\ Len(sounds) >= 1
  /\ sounds[1].id # 1

====
